---- MODULE Spec2Model ----
(***************************************************************************)
(* State-machine model of AutoTS (src/AutoTS.py), its configuration check  *)
(* (src/AutoTS/utils/validation.py) and its error metric                   *)
(* (src/error_metrics.py).                                                 *)
(*                                                                         *)
(* Dates are month ordinals (year * 12 + month - 1): the series are        *)
(* monthly, indexed by month starts.  Numbers are IEEE-754 doubles, every  *)
(* operation rounded as the hardware rounds it, and Python's None.  The    *)
(* three forecasting libraries are opaque: a fitted model is identified by *)
(* its family, the fit call that built it and the series it was built      *)
(* from;                                                                   *)
(* its fitted value at a position is the actual value plus an offset drawn *)
(* as an input of the fit call.                                            *)
(***************************************************************************)
EXTENDS Integers, Sequences, FiniteSets, TLC

(***************************************************************************)
(* Bounds                                                                  *)
(***************************************************************************)
MaxFits == 2

MaxCalls == 3

MaxHoldout == 2

MaxHorizon == 2

(***************************************************************************)
(* Unsigned integers of any size: little-endian sequences of limbs in      *)
(* 0..LimbBase-1 without high zero limbs (<<>> is zero).  They carry the   *)
(* 53-bit significands of IEEE-754 doubles and the wider intermediate      *)
(* values of correctly rounded operations.                                 *)
(***************************************************************************)
LimbBits == 15

LimbBase == 32768

Pow2Table == <<1, 2, 4, 8, 16, 32, 64, 128, 256, 512, 1024, 2048, 4096,
               8192, 16384, 32768>>

\* 2^k for k in 0..LimbBits
Pow2(k) == Pow2Table[k + 1]

Min(a, b) == IF a < b THEN a ELSE b

Max(a, b) == IF a > b THEN a ELSE b

RECURSIVE BigNorm(_)
BigNorm(x) ==
    IF x = <<>> THEN <<>>
    ELSE IF x[Len(x)] = 0 THEN BigNorm(SubSeq(x, 1, Len(x) - 1))
    ELSE x

RECURSIVE BigOfInt(_)
BigOfInt(n) ==
    IF n = 0 THEN <<>> ELSE <<n % LimbBase>> \o BigOfInt(n \div LimbBase)

BigLimb(x, i) == IF i <= Len(x) THEN x[i] ELSE 0

\* -1, 0, 1 as x < y, x = y, x > y, comparing limbs i, i-1, ..., 1
RECURSIVE BigCmpFrom(_, _, _)
BigCmpFrom(x, y, i) ==
    IF i = 0 THEN 0
    ELSE IF x[i] < y[i] THEN 0 - 1
    ELSE IF x[i] > y[i] THEN 1
    ELSE BigCmpFrom(x, y, i - 1)

BigCmp(x, y) ==
    IF Len(x) < Len(y) THEN 0 - 1
    ELSE IF Len(x) > Len(y) THEN 1
    ELSE BigCmpFrom(x, y, Len(x))

RECURSIVE BigAddFrom(_, _, _, _)
BigAddFrom(x, y, i, carry) ==
    IF i > Len(x) /\ i > Len(y)
    THEN IF carry = 0 THEN <<>> ELSE <<carry>>
    ELSE LET s == BigLimb(x, i) + BigLimb(y, i) + carry
         IN  <<s % LimbBase>> \o BigAddFrom(x, y, i + 1, s \div LimbBase)

BigAdd(x, y) == BigAddFrom(x, y, 1, 0)

\* x - y for x >= y
RECURSIVE BigSubFrom(_, _, _, _)
BigSubFrom(x, y, i, borrow) ==
    IF i > Len(x) THEN <<>>
    ELSE LET s == x[i] - BigLimb(y, i) - borrow
         IN  IF s < 0 THEN <<s + LimbBase>> \o BigSubFrom(x, y, i + 1, 1)
             ELSE <<s>> \o BigSubFrom(x, y, i + 1, 0)

BigSub(x, y) == BigNorm(BigSubFrom(x, y, 1, 0))

\* x * c for 0 <= c <= LimbBase
RECURSIVE BigMulSmallFrom(_, _, _, _)
BigMulSmallFrom(x, c, i, carry) ==
    IF i > Len(x) THEN IF carry = 0 THEN <<>> ELSE <<carry>>
    ELSE LET s == x[i] * c + carry
         IN  <<s % LimbBase>> \o BigMulSmallFrom(x, c, i + 1, s \div LimbBase)

\* x * 2^k
BigShl(x, k) ==
    IF x = <<>> \/ k = 0 THEN x
    ELSE [i \in 1..(k \div LimbBits) |-> 0]
         \o BigMulSmallFrom(x, Pow2(k % LimbBits), 1, 0)

\* [q, r]: the quotient and the remainder of limbs i, i+1, ... of x by c
\* (0 < c < LimbBase), r as a number below c
RECURSIVE BigDivSmallFrom(_, _, _)
BigDivSmallFrom(x, c, i) ==
    IF i > Len(x) THEN [q |-> <<>>, r |-> 0]
    ELSE LET up  == BigDivSmallFrom(x, c, i + 1)
             cur == up.r * LimbBase + x[i]
         IN  [q |-> <<cur \div c>> \o up.q, r |-> cur % c]

BigDivSmallResult(d) == [q |-> BigNorm(d.q), r |-> BigOfInt(d.r)]

\* [q, r]: the quotient and the remainder of x by a one-limb c
BigDivModSmall(x, c) == BigDivSmallResult(BigDivSmallFrom(x, c, 1))

\* floor(x / 2^k)
BigShr(x, k) ==
    LET q == k \div LimbBits
    IN  IF k = 0 THEN x
        ELSE IF q >= Len(x) THEN <<>>
        ELSE BigDivModSmall(SubSeq(x, q + 1, Len(x)), Pow2(k % LimbBits)).q

\* x mod 2^k
BigLow(x, k) ==
    LET q == k \div LimbBits
    IN  IF q >= Len(x) THEN x
        ELSE BigNorm(SubSeq(x, 1, q) \o <<x[q + 1] % Pow2(k % LimbBits)>>)

RECURSIVE BitLength(_)
BitLength(n) ==
    IF n >= 16 THEN 4 + BitLength(n \div 16)
    ELSE IF n >= 4 THEN (IF n >= 8 THEN 4 ELSE 3)
    ELSE IF n >= 2 THEN 2 ELSE n

BigBits(x) ==
    IF x = <<>> THEN 0 ELSE LimbBits * (Len(x) - 1) + BitLength(x[Len(x)])

RECURSIVE TrailingZeros(_)
TrailingZeros(n) ==
    IF n % 2 = 1 THEN 0
    ELSE IF n % 16 = 0 THEN 4 + TrailingZeros(n \div 16)
    ELSE IF n % 4 # 0 THEN 1
    ELSE IF n % 8 # 0 THEN 2 ELSE 3

\* the number of low zero bits of x # 0
RECURSIVE BigTrailingZeros(_, _)
BigTrailingZeros(x, i) ==
    IF x[i] = 0 THEN LimbBits + BigTrailingZeros(x, i + 1)
    ELSE TrailingZeros(x[i])

\* One step of long division (Knuth, algorithm D) by a divisor v of two or
\* more limbs whose top limb is at least LimbBase / 2: rem < v * LimbBase
\* holds the running remainder; the digit is estimated from the top limbs
\* and lowered until digit * v <= rem.
RECURSIVE BigDigit(_, _, _)
\* t = digit * v: the digit stands when t <= rem
BigDigitTry(rem, v, digit, t) ==
    IF BigCmp(t, rem) > 0 THEN BigDigit(rem, v, digit - 1)
    ELSE [digit |-> digit, rem |-> BigSub(rem, t)]

BigDigit(rem, v, digit) ==
    BigDigitTry(rem, v, digit,
                IF digit = 0 THEN <<>> ELSE BigMulSmallFrom(v, digit, 1, 0))

BigDivStep(rem, v) ==
    LET n   == Len(v)
        top == BigLimb(rem, n + 1) * LimbBase + BigLimb(rem, n)
    IN  BigDigit(rem, v, Min(top \div v[n], LimbBase - 1))

\* [q, r]: the quotient and the remainder of limbs i, i+1, ... of x by v;
\* the top Len(v) - 1 limbs are below v and start the remainder
RECURSIVE BigDivFrom(_, _, _)
BigDivPut(up, step) == [q |-> <<step.digit>> \o up.q, r |-> step.rem]

\* up: the result for the limbs above limb i; rem: its remainder with limb i
BigDivNext(up, v, rem) ==
    IF Len(rem) < Len(v) THEN [q |-> <<0>> \o up.q, r |-> rem]
    ELSE BigDivPut(up, BigDivStep(rem, v))

BigDivUp(x, v, i, up) == BigDivNext(up, v, BigNorm(<<x[i]>> \o up.r))

BigDivFrom(x, v, i) ==
    IF i > Len(x) - Len(v) + 1 THEN [q |-> <<>>, r |-> SubSeq(x, Max(i, 1), Len(x))]
    ELSE BigDivUp(x, v, i, BigDivFrom(x, v, i + 1))

BigDivResult(d) == [q |-> BigNorm(d.q), r |-> d.r]

\* x by y of two or more limbs, both scaled by 2^s to make the top limb of y
\* at least LimbBase / 2
BigDivLong(x, y, s) == BigDivResult(BigDivFrom(BigShl(x, s), BigShl(y, s), 1))

\* [q, r] with q = floor(x / y) and r = <<>> exactly when y divides x
BigDivMod(x, y) ==
    IF Len(y) = 1 THEN BigDivModSmall(x, y[1])
    ELSE BigDivLong(x, y, LimbBits - BitLength(y[Len(y)]))

(***************************************************************************)
(* Numbers: IEEE-754 doubles and Python's None.  [k, s, m, e] with k in    *)
(* {"num", "nan", "inf", "none"}; a "num" is (-1)^s * m * 2^e with m an    *)
(* odd integer of at most 53 bits (m = <<>>, e = 0 for zero).  Every       *)
(* operation rounds to nearest, ties to even, as the hardware does: to 53  *)
(* bits, to a multiple of 2^MinExponent below the normal range (subnormals *)
(* and zero), and to an infinity from 2^MaxExponent on.                    *)
(***************************************************************************)
Precision == 53

\* the exponent of the lowest bit a double can hold
MinExponent == 0 - 1074

\* the magnitudes from 2^MaxExponent on are beyond the doubles
MaxExponent == 1024

NaN == [k |-> "nan", s |-> 0, m |-> <<>>, e |-> 0]

NoneV == [k |-> "none", s |-> 0, m |-> <<>>, e |-> 0]

Signed(kind, s) == [k |-> kind, s |-> s, m |-> <<>>, e |-> 0]

\* z: the number of low zero bits of n
ExactStrip(s, n, e, z) == [k |-> "num", s |-> s, m |-> BigShr(n, z), e |-> e + z]

\* (-1)^s * n * 2^e for an integer n that a double represents exactly
Exact(s, n, e) ==
    IF n = <<>> THEN Signed("num", s) ELSE ExactStrip(s, n, e, BigTrailingZeros(n, 1))

\* (-1)^s * n * 2^e for a rounded n: an infinity when it is out of range
RoundRange(s, n, e) ==
    IF BigBits(n) + e > MaxExponent THEN Signed("inf", s) ELSE Exact(s, n, e)

\* kept: the bits that stay; c: the dropped bits against half a unit
RoundKept(s, sticky, kept, c, exp) ==
    RoundRange(s, IF c > 0 \/ (c = 0 /\ (sticky \/ BigLimb(kept, 1) % 2 = 1))
                  THEN BigAdd(kept, <<1>>) ELSE kept, exp)

\* drop: the number of low bits of n that the result cannot hold
RoundDrop(s, n, e, sticky, drop) ==
    RoundKept(s, sticky,
              IF drop <= 0 THEN n ELSE BigShr(n, drop),
              IF drop <= 0 THEN 0 - 1
              ELSE BigCmp(BigLow(n, drop), BigShl(<<1>>, drop - 1)),
              IF drop <= 0 THEN e ELSE e + drop)

\* the double nearest to (-1)^s * (n + f) * 2^e, where 0 <= f < 1 and
\* sticky says whether f > 0 (n has more than Precision bits when it is)
Round(s, n, e, sticky) ==
    RoundDrop(s, n, e, sticky, Max(BigBits(n) - Precision, MinExponent - e))

\* float(i)
Int2Float(i) ==
    Exact(IF i < 0 THEN 1 ELSE 0, BigOfInt(IF i < 0 THEN 0 - i ELSE i), 0)

IsNum(v) == v.k = "num"

IsZero(v) == v.k = "num" /\ v.m = <<>>

\* the order of the significands of a and b in units of 2^e
MagnitudeAligned(a, b, e) == BigCmp(BigShl(a.m, a.e - e), BigShl(b.m, b.e - e))

\* ta, tb: the positions of the top bits of a and b
MagnitudeOrder(a, b, ta, tb) ==
    IF a.m = b.m /\ a.e = b.e THEN 0
    ELSE IF ta < tb THEN 0 - 1
    ELSE IF ta > tb THEN 1
    ELSE MagnitudeAligned(a, b, Min(a.e, b.e))

\* -1, 0, 1 as |a| < |b|, |a| = |b|, |a| > |b| for two nonzero "num"
MagnitudeCmp(a, b) == MagnitudeOrder(a, b, BigBits(a.m) + a.e, BigBits(b.m) + b.e)

\* -1, 0, 1 as a is negative, zero, positive
SignOf(a) == IF IsZero(a) THEN 0 ELSE IF a.s = 1 THEN 0 - 1 ELSE 1

CmpSigned(a, b, sa, sb) ==
    IF sa # sb THEN (IF sa < sb THEN 0 - 1 ELSE 1)
    ELSE IF sa = 0 THEN 0
    ELSE IF a.k = "inf" \/ b.k = "inf"
         THEN (IF a.k = b.k THEN 0 ELSE IF a.k = "inf" THEN sa ELSE 0 - sa)
    ELSE sa * MagnitudeCmp(a, b)

\* -1, 0, 1 as a < b, a = b, a > b for two values that are not NaN
Cmp(a, b) == CmpSigned(a, b, SignOf(a), SignOf(b))

\* Python's `a < b` on two floats (False whenever a NaN is involved)
FloatLt(a, b) == a.k # "nan" /\ b.k # "nan" /\ Cmp(a, b) < 0

\* Python's `a <= b` on two floats
FloatLe(a, b) == a.k # "nan" /\ b.k # "nan" /\ Cmp(a, b) <= 0

\* Python's `a == b` on two floats
FloatEq(a, b) == a.k # "nan" /\ b.k # "nan" /\ Cmp(a, b) = 0

\* abs(a)
FloatAbs(a) == [a EXCEPT !.s = 0]

\* na, nb: the magnitudes of a and b in units of 2^e; c: their order
AddSigned(a, b, na, nb, e, c) ==
    Round(IF a.s = b.s \/ c > 0 THEN a.s ELSE IF c = 0 THEN 0 ELSE b.s,
          IF a.s = b.s THEN BigAdd(na, nb)
          ELSE BigSub(IF c >= 0 THEN na ELSE nb, IF c >= 0 THEN nb ELSE na),
          e, FALSE)

AddOrdered(a, b, na, nb, e) == AddSigned(a, b, na, nb, e, BigCmp(na, nb))

AddAligned(a, b, e) ==
    AddOrdered(a, b, BigShl(a.m, a.e - e), BigShl(b.m, b.e - e), e)

\* a + b for a b so small that what it adds or takes away is less than one
\* unit of the significand of a with GuardBits more bits
GuardBits == Precision + 2

AddFar(a, b) ==
    Round(a.s,
          IF a.s = b.s THEN BigShl(a.m, GuardBits)
          ELSE BigSub(BigShl(a.m, GuardBits), <<1>>),
          a.e - GuardBits, TRUE)

\* ta, tb: the positions of the top bits of a and b
AddNear(a, b, ta, tb) ==
    IF ta - tb > Precision + GuardBits THEN AddFar(a, b)
    ELSE IF tb - ta > Precision + GuardBits THEN AddFar(b, a)
    ELSE AddAligned(a, b, Min(a.e, b.e))

\* a + b
FloatAdd(a, b) ==
    CASE a.k = "num" /\ b.k = "num" /\ a.m # <<>> /\ b.m # <<>> ->
           AddNear(a, b, BigBits(a.m) + a.e, BigBits(b.m) + b.e)
      [] a.k = "nan" \/ b.k = "nan" -> NaN
      [] a.k = "inf" /\ b.k = "inf" -> IF a.s = b.s THEN a ELSE NaN
      [] a.k = "inf" /\ b.k = "num" -> a
      [] a.k = "num" /\ b.k = "inf" -> b
      [] IsZero(a) /\ IsZero(b) -> Signed("num", IF a.s = 1 /\ b.s = 1 THEN 1 ELSE 0)
      [] IsZero(a) /\ IsNum(b) /\ ~IsZero(b) -> b
      [] IsZero(b) /\ IsNum(a) /\ ~IsZero(a) -> a

\* a - b
FloatSub(a, b) == FloatAdd(a, [b EXCEPT !.s = 1 - b.s])

\* d: the significand of a, with t more bits, by that of b
DivRounded(a, b, s, d, t) == Round(s, d.q, a.e - b.e - t, d.r # <<>>)

DivShifted(a, b, s, t) == DivRounded(a, b, s, BigDivMod(BigShl(a.m, t), b.m), t)

\* s: the sign of the quotient.  When the quotient of the significands is
\* plainly an integer it is the result and needs no more bits, otherwise 55
\* or 56 bits of it are rounded
DivSigned(a, b, s) ==
    CASE a.k = "num" /\ b.k = "num" /\ a.m # <<>> /\ b.m # <<>> ->
           DivShifted(a, b, s,
               IF b.m = <<1>>
                  \/ (Len(a.m) = 1 /\ Len(b.m) = 1 /\ a.m[1] % b.m[1] = 0)
               THEN 0
               ELSE Precision + 2 + BigBits(b.m) - BigBits(a.m))
      [] a.k = "nan" \/ b.k = "nan" -> NaN
      [] a.k = "inf" /\ b.k = "inf" -> NaN
      [] a.k = "inf" /\ b.k = "num" -> Signed("inf", s)
      [] a.k = "num" /\ b.k = "inf" -> Signed("num", s)
      [] IsZero(a) /\ IsZero(b) -> NaN
      [] IsNum(a) /\ ~IsZero(a) /\ IsZero(b) -> Signed("inf", s)
      [] IsZero(a) /\ IsNum(b) /\ ~IsZero(b) -> Signed("num", s)

\* a / b as numpy divides (division by zero gives inf or NaN)
FloatDiv(a, b) == DivSigned(a, b, IF a.s = b.s THEN 0 ELSE 1)

\* numpy adds a contiguous array of doubles pairwise: fewer than
\* UnrollWidth values in order; up to BlockSize values in UnrollWidth
\* interleaved accumulators that are then added in pairs, the values after
\* the last full group of UnrollWidth in order on top; a longer array as the
\* sum of its two parts, the first a multiple of UnrollWidth long.
UnrollWidth == 8

BlockSize == 128

\* res + a[i] + a[i + 1] + ... + a[last], in that order
RECURSIVE AddInOrder(_, _, _, _)
AddInOrder(a, i, last, res) ==
    IF i > last THEN res ELSE AddInOrder(a, i + 1, last, FloatAdd(res, a[i]))

\* acc + a[i] + a[i + UnrollWidth] + ... up to position last
RECURSIVE Accumulate(_, _, _, _)
Accumulate(a, i, last, acc) ==
    IF i > last THEN acc
    ELSE Accumulate(a, i + UnrollWidth, last, FloatAdd(acc, a[i]))

\* accumulator j of the n values from position lo on
Accumulator(a, lo, n, j) ==
    Accumulate(a, lo + j + UnrollWidth, lo + n - (n % UnrollWidth) - 1, a[lo + j])

UnrolledSum(a, lo, n) ==
    AddInOrder(a, lo + n - (n % UnrollWidth), lo + n - 1,
        FloatAdd(FloatAdd(FloatAdd(Accumulator(a, lo, n, 0), Accumulator(a, lo, n, 1)),
                          FloatAdd(Accumulator(a, lo, n, 2), Accumulator(a, lo, n, 3))),
                 FloatAdd(FloatAdd(Accumulator(a, lo, n, 4), Accumulator(a, lo, n, 5)),
                          FloatAdd(Accumulator(a, lo, n, 6), Accumulator(a, lo, n, 7)))))

\* the sum of a[lo], ..., a[lo + n - 1]
RECURSIVE PairwiseSum(_, _, _)
\* half: the length of the first part
SplitSum(a, lo, n, half) ==
    FloatAdd(PairwiseSum(a, lo, half), PairwiseSum(a, lo + half, n - half))

PairwiseSum(a, lo, n) ==
    IF n < UnrollWidth THEN AddInOrder(a, lo, lo + n - 1, Int2Float(0))
    ELSE IF n <= BlockSize THEN UnrolledSum(a, lo, n)
    ELSE SplitSum(a, lo, n, (n \div 2) - ((n \div 2) % UnrollWidth))

\* ndarray.sum() of a sequence of floats: the reduction starts from 0.0
SumSeq(s) == FloatAdd(Int2Float(0), PairwiseSum(s, 1, Len(s)))

\* the_sum / count if count > 0 else nan
Mean(the_sum, count) ==
    IF count = 0 THEN NaN ELSE FloatDiv(the_sum, Int2Float(count))

\* pandas mean with skipna=True over a sequence of floats: the sum of the
\* values, with 0.0 put in the place of each NaN before it sums, by the
\* number of values that are not NaN
NanMean(s) ==
    Mean(SumSeq([i \in 1..Len(s) |-> IF s[i].k = "nan" THEN Int2Float(0) ELSE s[i]]),
         Len(SelectSeq(s, LAMBDA v : v.k # "nan")))

(***************************************************************************)
(* Dates                                                                   *)
(***************************************************************************)
Date(year, month) == year * 12 + (month - 1)

Year(d) == d \div 12

Month(d) == (d % 12) + 1

\* (b.year - a.year) * 12 + (b.month - a.month)
MonthDiff(a, b) == (Year(b) - Year(a)) * 12 + (Month(b) - Month(a))

\* d + relativedelta(months=+1)
AddOneMonth(d) ==
    IF Month(d) = 12 THEN Date(Year(d) + 1, 1) ELSE Date(Year(d), Month(d) + 1)

\* number of entries of pd.date_range(a, b, freq='MS') for month starts a, b
DateRangeLen(a, b) == IF b < a THEN 0 ELSE b - a + 1

\* pd.date_range(a, b, freq='MS')
DateRange(a, b) == [i \in 1..DateRangeLen(a, b) |-> a + (i - 1)]

(***************************************************************************)
(* Configuration check                                                     *)
(***************************************************************************)
valid_models == <<"auto_arima", "exponential_smoothing", "tbats", "ensemble">>

SeqToSet(s) == {s[i] : i \in 1..Len(s)}

Contains(s, x) == \E i \in 1..Len(s) : s[i] = x

\* str.lower() on the names the model draws from
Lower(name) ==
    CASE name = "TBATS" -> "tbats"
      [] OTHER -> name

\* models is [type, items]; result is "ok" or the exception raised
check_models(models) ==
    IF models.type \notin {"tuple", "list"} THEN "TypeError"
    ELSE IF Len(models.items) = 0 THEN "ValueError"
    ELSE IF SelectSeq(models.items, LAMBDA m : ~Contains(valid_models, m)) # <<>>
         THEN "ValueError"
    ELSE IF Len(models.items) <= 2 /\ Contains(models.items, "ensemble")
         THEN "ValueError"
    ELSE "ok"

\* isinstance(series_df.index, pd.DatetimeIndex)
check_datetime_index(indexType) ==
    IF indexType # "DatetimeIndex" THEN "TypeError" ELSE "ok"

(***************************************************************************)
(* Error metric                                                            *)
(***************************************************************************)
\* data[actuals].shift(step_size): towards the end for a positive step_size,
\* towards the start for a negative one, NaN where no row answers
shifted_actuals(actuals, step_size) ==
    [i \in 1..Len(actuals) |->
        IF i - step_size \in 1..Len(actuals) THEN actuals[i - step_size] ELSE NaN]

\* abs(data[actuals] - data['shifted_actuals'])
abs_shifted_error(actuals, shifted) ==
    [i \in 1..Len(actuals) |-> FloatAbs(FloatSub(actuals[i], shifted[i]))]

\* abs(data[actuals] - data[prediction])
abs_prediction_error(actuals, pred) ==
    [i \in 1..Len(actuals) |-> FloatAbs(FloatSub(actuals[i], pred[i]))]

\* the sum of the shifted errors that are not NaN, by len(data) - step_size
avg_shifted_error(shifted_error, n) ==
    FloatDiv(SumSeq(SelectSeq(shifted_error, LAMBDA v : v.k # "nan")), Int2Float(n))

\* data['abs_prediction_error'] / avg_shifted_error
abs_scaled_error(prediction_error, avg) ==
    [i \in 1..Len(prediction_error) |-> FloatDiv(prediction_error[i], avg)]

\* pred: the prediction column, actuals: the actuals column, both of floats
\* and NaNs; every column of the code is computed as the code computes it
mase_step(pred, actuals, step_size) ==
    NanMean(abs_scaled_error(
                abs_prediction_error(actuals, pred),
                avg_shifted_error(
                    abs_shifted_error(actuals, shifted_actuals(actuals, step_size)),
                    Len(actuals) - step_size)))

mase(pred, actuals) == mase_step(pred, actuals, 1)

error_metric_of(metric, pred, actuals) ==
    IF metric = "mase" THEN mase(pred, actuals) ELSE NoneV

(***************************************************************************)
(* sorted(candidate_models, key=lambda x: x[0])                            *)
(***************************************************************************)
Reverse(s) == [i \in 1..Len(s) |-> s[Len(s) + 1 - i]]

\* end of the non-descending run that starts at position 1
RECURSIVE AscRun(_, _)
AscRun(s, i) ==
    IF i > Len(s) THEN Len(s)
    ELSE IF FloatLt(s[i].score, s[i - 1].score) THEN i - 1
    ELSE AscRun(s, i + 1)

\* end of the strictly descending run that starts at position 1
RECURSIVE DescRun(_, _)
DescRun(s, i) ==
    IF i > Len(s) THEN Len(s)
    ELSE IF FloatLt(s[i].score, s[i - 1].score) THEN DescRun(s, i + 1)
    ELSE i - 1

\* position at which pivot is inserted into the sorted prefix s[1..hi-1]
RECURSIVE BinarySearch(_, _, _, _)
BinarySearch(s, pivot, l, r) ==
    IF l >= r THEN l
    ELSE LET p == l + ((r - l) \div 2)
         IN  IF FloatLt(pivot.score, s[p].score)
             THEN BinarySearch(s, pivot, l, p)
             ELSE BinarySearch(s, pivot, p + 1, r)

InsertAt(s, pos, x) ==
    [i \in 1..(Len(s) + 1) |->
        IF i < pos THEN s[i] ELSE IF i = pos THEN x ELSE s[i - 1]]

\* binary insertion of s[start..] into the sorted prefix s[1..start-1]
RECURSIVE BinarySort(_, _)
BinarySort(s, start) ==
    IF start > Len(s) THEN s
    ELSE LET prefix == SubSeq(s, 1, start - 1)
             pos    == BinarySearch(prefix, s[start], 1, start)
             merged == InsertAt(prefix, pos, s[start]) \o SubSeq(s, start + 1, Len(s))
         IN  BinarySort(merged, start + 1)

\* comparing two None keys raises TypeError
SortRaises(s) == Len(s) >= 2 /\ \E i \in 1..Len(s) : s[i].score.k = "none"

\* the candidates left in the order they were appended
sorted_unsorted(s) == s

sorted(s) ==
    IF Len(s) < 2 THEN s
    ELSE IF FloatLt(s[2].score, s[1].score)
         THEN LET r == DescRun(s, 3)
              IN  BinarySort(Reverse(SubSeq(s, 1, r)) \o SubSeq(s, r + 1, Len(s)), r + 1)
         ELSE BinarySort(s, AscRun(s, 3) + 1)

(***************************************************************************)
(* Data frames                                                             *)
(*   a series  : [first, vals]       (monthly index starting at first)     *)
(*   a table   : [index, actuals, cols], actuals a sequence of floats and  *)
(*               NaNs, cols a sequence of [base, sfx, vals]; the column's  *)
(*               name is base followed by sfx, the suffix a merge has      *)
(*               given it ("" when none)                                   *)
(***************************************************************************)
\* the values of a column of the input frame as a column of a table
Floats(vals) == [i \in 1..Len(vals) |-> Int2Float(vals[i])]

Index(data) == [i \in 1..Len(data.vals) |-> data.first + (i - 1)]

LastDate(data) == data.first + (Len(data.vals) - 1)

\* the position a Python slice bound i stands for in a sequence of n rows
SliceIndex(i, n) == IF i < 0 THEN Max(n + i, 0) ELSE Min(i, n)

\* data.iloc[:-holdout_period, :] (no row when holdout_period is 0: -0 is 0)
training_data_of(data, holdout_period) ==
    LET k == SliceIndex(0 - holdout_period, Len(data.vals))
    IN  [first |-> data.first, vals |-> SubSeq(data.vals, 1, k),
         columns |-> data.columns]

\* data.iloc[-holdout_period:, :] (every row when holdout_period is 0)
testing_data_of(data, holdout_period) ==
    LET k == SliceIndex(0 - holdout_period, Len(data.vals))
    IN  [first |-> data.first + k, vals |-> SubSeq(data.vals, k + 1, Len(data.vals)),
         columns |-> data.columns]

PosOf(index, d) == CHOOSE i \in 1..Len(index) : index[i] = d

\* the rows of table t at the dates idx (all of them dates of t)
Restrict(t, idx) ==
    [index   |-> idx,
     actuals |-> [i \in 1..Len(idx) |-> t.actuals[PosOf(t.index, idx[i])]],
     cols    |-> [c \in 1..Len(t.cols) |->
                    [base |-> t.cols[c].base, sfx |-> t.cols[c].sfx,
                     vals |-> [i \in 1..Len(idx) |->
                                 t.cols[c].vals[PosOf(t.index, idx[i])]]]]]

ColNames(t) == {<<t.cols[c].base, t.cols[c].sfx>> : c \in 1..Len(t.cols)}

Renamed(cols, overlap, sfx) ==
    [c \in 1..Len(cols) |->
        IF <<cols[c].base, cols[c].sfx>> \in overlap
        THEN [base |-> cols[c].base, sfx |-> cols[c].sfx \o sfx, vals |-> cols[c].vals]
        ELSE cols[c]]

\* two columns share a name: fewer names than columns
HasDuplicateNames(cols) ==
    Cardinality({<<cols[c].base, cols[c].sfx>> : c \in 1..Len(cols)}) # Len(cols)

\* pd.merge(left, right.drop('actuals', axis='columns'), left_index=True, right_index=True)
MergeTables(left, right) ==
    LET idx     == SelectSeq(left.index, LAMBDA d : Contains(right.index, d))
        overlap == ColNames(left) \cap ColNames(right)
        l       == Restrict(left, idx)
        r       == Restrict(right, idx)
    IN  [index   |-> idx,
         actuals |-> l.actuals,
         cols    |-> Renamed(l.cols, overlap, "_x") \o Renamed(r.cols, overlap, "_y")]

\* reduce(lambda left, right: pd.merge(...), tables); tables is not empty
RECURSIVE ReduceMerge(_, _)
ReduceMerge(acc, tables) ==
    IF tables = <<>> THEN acc
    ELSE ReduceMerge(MergeTables(acc, Head(tables)), Tail(tables))

RECURSIVE ReduceMergeRaises(_, _)
\* merged: the result of one merge; MergeError when the suffixes make two of
\* its columns share a name
MergeRaises(merged, tables) ==
    HasDuplicateNames(merged.cols) \/ ReduceMergeRaises(merged, tables)

\* whether one of the merges of the reduce raises
ReduceMergeRaises(acc, tables) ==
    IF tables = <<>> THEN FALSE
    ELSE MergeRaises(MergeTables(acc, Head(tables)), Tail(tables))

\* str(col).endswith('predictions')
EndsWithPredictions(col) == col.sfx = ""

\* frame[columns].mean(axis='columns')
RowMeans(t, columns) ==
    [i \in 1..Len(t.index) |->
        NanMean([c \in 1..Len(columns) |-> columns[c].vals[i]])]

\* frame[name] = vals: replaces the column of that name, or appends it
SetColumn(t, base, vals) ==
    LET new == [base |-> base, sfx |-> "", vals |-> vals]
    IN  IF <<base, "">> \in ColNames(t)
        THEN [t EXCEPT !.cols = [c \in 1..Len(t.cols) |->
                 IF t.cols[c].base = base /\ t.cols[c].sfx = "" THEN new ELSE t.cols[c]]]
        ELSE [t EXCEPT !.cols = Append(t.cols, new)]

Column(t, base) == t.cols[CHOOSE c \in 1..Len(t.cols) : t.cols[c].base = base /\ t.cols[c].sfx = ""]

(***************************************************************************)
(* The forecasting libraries                                               *)
(*   a fitted model : [family, fit, first, n, err]: the family, the number *)
(*   of the fit call that built it, the first date and the length of the   *)
(*   series it was built from, and its offset                              *)
(***************************************************************************)
NoModel == [family |-> "None", fit |-> 0, first |-> 0, n |-> 0, err |-> 0]

FitModel(family, fitNo, model_data, err) ==
    [family |-> family, fit |-> fitNo, first |-> model_data.first,
     n |-> Len(model_data.vals), err |-> err]

\* the model's fitted value at position pos of the series it was built from
FittedValue(model_data, err, pos) == Int2Float(model_data.vals[pos] + err)

\* the model's forecast k steps after the end of the series it was built from
ForecastValue(model_data, err, k) == Int2Float(model_data.vals[Len(model_data.vals)] + err)

\* value at position pos (1-based), inside the series or beyond its end
ValueAt(model_data, err, pos) ==
    IF pos <= Len(model_data.vals) THEN FittedValue(model_data, err, pos)
    ELSE ForecastValue(model_data, err, pos - Len(model_data.vals))

(***************************************************************************)
(* Candidates: [score, model, name, preds, call], call being the number of *)
(* the fit call that built the candidate                                   *)
(***************************************************************************)
OneColumn(base, vals) == <<[base |-> base, sfx |-> "", vals |-> vals]>>

\* model_data[self.exogenous] and testing_data[self.exogenous] raise KeyError
\* when exogenous regressors are in use and the frame lacks one of them
fit_auto_arima_raises(data, exog_used, exog) ==
    exog_used /\ ~(SeqToSet(exog.cols) \subseteq data.columns)

fit_auto_arima(data, holdout_period, metric, fitNo, err, use_full_dataset) ==
    LET model_data == IF use_full_dataset THEN data
                      ELSE training_data_of(data, holdout_period)
        testing    == testing_data_of(data, holdout_period)
        model      == FitModel("auto_arima", fitNo, model_data, err)
        test_predictions ==
            IF use_full_dataset
            THEN [index   |-> Index(model_data),
                  actuals |-> Floats(model_data.vals),
                  cols    |-> OneColumn("aa_test_predictions",
                                [i \in 1..Len(model_data.vals) |->
                                    FittedValue(model_data, err, i)])]
            ELSE [index   |-> Index(testing),
                  actuals |-> Floats(testing.vals),
                  cols    |-> OneColumn("aa_test_predictions",
                                [i \in 1..Len(testing.vals) |->
                                    ForecastValue(model_data, err, i)])]
    IN  [score |-> error_metric_of(metric, test_predictions.cols[1].vals,
                                    test_predictions.actuals),
         model |-> model, name |-> "auto_arima",
         preds |-> test_predictions, call |-> fitNo]

\* model.predict(len(training_data), len(training_data) + holdout_period - 2)
\* raises when its end comes before its start
exponential_smoothing_raises(holdout_period) == holdout_period - 2 < 0

fit_exponential_smoothing(data, holdout_period, metric, fitNo, err, use_full_dataset) ==
    LET model_data == IF use_full_dataset THEN data
                      ELSE training_data_of(data, holdout_period)
        training   == training_data_of(data, holdout_period)
        testing    == testing_data_of(data, holdout_period)
        model      == FitModel("exponential_smoothing", fitNo, model_data, err)
        \* 0-based positions start..end of the model's series, both included
        start      == Len(training.vals)
        end        == Len(training.vals) + holdout_period - 2
        \* the frame's index is the union of the index of the actuals and
        \* that of the predictions; both begin at the first date of the
        \* testing data, so the union is the longer of the two; each column
        \* is NaN on the rows its series does not have
        rows       == Max(Len(testing.vals), end - start + 1)
        test_predictions ==
            [index   |-> [i \in 1..rows |-> testing.first + (i - 1)],
             actuals |-> [i \in 1..rows |->
                            IF i <= Len(testing.vals)
                            THEN Int2Float(testing.vals[i]) ELSE NaN],
             cols    |-> OneColumn("es_test_predictions",
                           [i \in 1..rows |->
                              IF start + (i - 1) <= end
                              THEN ValueAt(model_data, err, start + i)
                              ELSE NaN])]
    IN  [score |-> error_metric_of(metric, test_predictions.cols[1].vals,
                                    test_predictions.actuals),
         model |-> model, name |-> "exponential_smoothing",
         preds |-> test_predictions, call |-> fitNo]

fit_tbats(data, holdout_period, metric, fitNo, err, use_full_dataset) ==
    LET model_data == IF use_full_dataset THEN data
                      ELSE training_data_of(data, holdout_period)
        testing    == testing_data_of(data, holdout_period)
        fitted_model == FitModel("tbats", fitNo, model_data, err)
        test_predictions ==
            [index   |-> Index(testing),
             actuals |-> Floats(testing.vals),
             cols    |-> OneColumn("tb_test_predictions",
                           [i \in 1..Len(testing.vals) |->
                               ForecastValue(model_data, err, i)])]
    IN  [score |-> error_metric_of(metric, test_predictions.cols[1].vals,
                                    test_predictions.actuals),
         model |-> fitted_model, name |-> "tbats",
         preds |-> test_predictions, call |-> fitNo]

\* what _fit_ensemble raises on the candidates built so far ("" when nothing)
fit_ensemble_raises(candidates) ==
    IF candidates = <<>> THEN "TypeError"
    ELSE LET model_predictions == [i \in 1..Len(candidates) |-> candidates[i].preds]
         IN  IF ReduceMergeRaises(Head(model_predictions), Tail(model_predictions))
             THEN "MergeError" ELSE ""

\* all_predictions with the column en_test_predictions
ensemble_column(all_predictions) ==
    SetColumn(all_predictions, "en_test_predictions",
              RowMeans(all_predictions,
                       SelectSeq(all_predictions.cols, EndsWithPredictions)))

\* the frame all_predictions at the end of _fit_ensemble
ensemble_frame(candidates) ==
    LET model_predictions == [i \in 1..Len(candidates) |-> candidates[i].preds]
    IN  ensemble_column(ReduceMerge(Head(model_predictions), Tail(model_predictions)))

\* en: the column en_test_predictions of all_predictions
ensemble_candidate(all_predictions, en, metric, fitNo) ==
    [score |-> error_metric_of(metric, en.vals, all_predictions.actuals),
     model |-> NoModel, name |-> "ensemble",
     preds |-> [index   |-> all_predictions.index,
                actuals |-> all_predictions.actuals,
                cols    |-> <<en>>],
     call  |-> fitNo]

ensemble_of(all_predictions, metric, fitNo) ==
    ensemble_candidate(all_predictions, Column(all_predictions, "en_test_predictions"),
                       metric, fitNo)

fit_ensemble(candidates, metric, fitNo) ==
    ensemble_of(ensemble_frame(candidates), metric, fitNo)

\* the candidates after _fit_ensemble: with a single candidate, reduce returns
\* that candidate's own frame, which then receives the ensemble column
candidates_after_ensemble(candidates, metric, fitNo) ==
    LET aliased == IF Len(candidates) = 1
                   THEN <<[candidates[1] EXCEPT !.preds = ensemble_frame(candidates)]>>
                   ELSE candidates
    IN  Append(aliased, fit_ensemble(candidates, metric, fitNo))

(***************************************************************************)
(* State                                                                   *)
(***************************************************************************)
VARIABLES
    ctor,              \* outcome of AutoTS(...): "ok" or the exception raised
    model_names,
    error_metric,
    holdout_period,
    data,              \* NoData is None
    exogenous,         \* [isNone, cols]
    using_exogenous,
    candidate_models,
    fit_model,         \* NoModel is None
    fit_model_type,    \* "None" is None
    best_model_error,  \* NoneV is None
    is_fitted,
    nfits,             \* number of fit calls made so far
    ncalls,            \* number of fit and predict calls made so far
    lastFit,           \* the arguments of the last fit call and how it ended
    ret                \* what the last call returned or raised

vars == <<ctor, model_names, error_metric, holdout_period, data, exogenous,
          using_exogenous, candidate_models, fit_model, fit_model_type,
          best_model_error, is_fitted, nfits, ncalls, lastFit, ret>>

NoData == [first |-> 0, vals |-> <<>>, columns |-> {}]

NoExogenous == [isNone |-> TRUE, cols |-> <<>>]

\* lastFit: the input of the call, with
\*   status         "ok" when the call returned, "raised" when it raised
\*   evaluated      the names of the candidates the call built, in that order
\*   ensembleInputs the number of non-ensemble candidates in the list when
\*                  _fit_ensemble was called (-1: not called)
NoFit == [indexType |-> "None", series |-> NoData, exogenous |-> "None",
          err |-> <<0, 0, 0>>, fail |-> "none",
          status |-> "none", evaluated |-> <<>>, ensembleInputs |-> -1]

NoRequest == [types |-> "None", start |-> 0, end |-> 0, exogenous |-> "None"]

\* ret: the call (op, req), the exception it raised ("" when none), and for
\* predict: the predictor it dispatched to, the branches taken by the
\* auto_arima and tbats predictors, the numbers of values they produced, and
\* the series returned
NoReturn == [op |-> "init", raised |-> "", req |-> NoRequest, dispatch |-> "",
             paths |-> {}, produced |-> {}, value |-> <<>>]

(***************************************************************************)
(* Inputs                                                                  *)
(***************************************************************************)
ModelNameArgs ==
    { [type |-> "tuple", items |-> <<"auto_arima", "exponential_smoothing", "tbats", "ensemble">>],
      [type |-> "tuple", items |-> <<"tbats">>],
      [type |-> "list",  items |-> <<"ensemble", "tbats", "auto_arima">>],
      [type |-> "tuple", items |-> <<"auto_arima", "auto_arima", "ensemble">>],
      [type |-> "tuple", items |-> <<"auto_arima", "ensemble">>],
      [type |-> "list",  items |-> <<"ensemble">>],
      [type |-> "list",  items |-> <<>>],
      [type |-> "tuple", items |-> <<"TBATS">>],
      [type |-> "str",   items |-> <<"tbats">>] }

\* the implemented metric with every model_names argument, mse with two
ErrorMetricArgs(names) ==
    IF names.type = "tuple" /\ names.items \in {valid_models, <<"tbats">>}
    THEN {"mase", "mse"}
    ELSE {"mase"}

HoldoutArgs == 1..MaxHoldout

ShortSeries == [first |-> Date(2020, 10), vals |-> <<1, 2, 4>>, columns |-> {"x"}]

LongSeries == [first |-> Date(2020, 11), vals |-> <<1, 3, 3, 3>>, columns |-> {}]

EarlySeries == [first |-> Date(2020, 9), vals |-> <<1, 2, 3, 5>>, columns |-> {}]

\* a series no longer than the largest holdout_period
TinySeries == [first |-> Date(2020, 11), vals |-> <<2, 5>>, columns |-> {}]

Offsets == {<<0, 0, 0>>, <<2, 0, 2>>}

FitInput(indexType, series, exog, err, fail) ==
    [indexType |-> indexType, series |-> series, exogenous |-> exog,
     err |-> err, fail |-> fail]

\* the arguments of a fit call and what the libraries do in it: the offset of
\* each family's model, and the family whose fitting raises ("none": none)
FitInputs ==
    { FitInput("DatetimeIndex", ShortSeries, "None", e, "none") : e \in Offsets }
    \cup
    { FitInput("DatetimeIndex", EarlySeries, "None", <<2, 0, 2>>, "none"),
      FitInput("DatetimeIndex", TinySeries,  "None", <<1, 0, 0>>, "none"),
      FitInput("RangeIndex",    ShortSeries, "None", <<0, 0, 0>>, "none"),
      FitInput("DatetimeIndex", ShortSeries, "list", <<0, 0, 0>>, "none"),
      FitInput("DatetimeIndex", LongSeries,  "str",  <<0, 0, 0>>, "none"),
      FitInput("DatetimeIndex", ShortSeries, "None", <<0, 0, 0>>, "exponential_smoothing"),
      FitInput("DatetimeIndex", LongSeries,  "None", <<0, 0, 0>>, "tbats") }

(***************************************************************************)
(* AutoTS(model_names, error_metric, holdout_period)                       *)
(***************************************************************************)
Init ==
    \E names \in ModelNameArgs, holdout \in HoldoutArgs :
    \E metric \in ErrorMetricArgs(names) :
        /\ ctor = check_models(names)
        /\ model_names = IF check_models(names) = "ok"
                         THEN [i \in 1..Len(names.items) |-> Lower(names.items[i])]
                         ELSE <<>>
        /\ error_metric = metric
        /\ holdout_period = holdout
        /\ data = NoData
        /\ exogenous = NoExogenous
        /\ using_exogenous = FALSE
        /\ candidate_models = <<>>
        /\ fit_model = NoModel
        /\ fit_model_type = "None"
        /\ best_model_error = NoneV
        /\ is_fitted = FALSE
        /\ nfits = 0
        /\ ncalls = 0
        /\ lastFit = NoFit
        /\ ret = [NoReturn EXCEPT !.raised = IF check_models(names) = "ok" THEN ""
                                             ELSE check_models(names)]

(***************************************************************************)
(* fit                                                                     *)
(***************************************************************************)
\* one candidate-fitting step of fit: st is [cands, raised]
\* self.using_exogenous and self.exogenous once fit has read its argument
using_exogenous_of(inp, current) == IF inp.exogenous # "None" THEN TRUE ELSE current

exogenous_of(inp, current) ==
    CASE inp.exogenous = "str"  -> [isNone |-> FALSE, cols |-> <<>>]
      [] inp.exogenous = "list" -> [isNone |-> FALSE, cols |-> <<"x">>]
      [] OTHER -> current

FitStep(st, family, inp, candidate) ==
    IF st.raised # "" \/ ~Contains(model_names, family) THEN st
    ELSE IF family = "auto_arima"
            /\ fit_auto_arima_raises(inp.series, using_exogenous_of(inp, using_exogenous),
                                     exogenous_of(inp, exogenous))
         THEN [st EXCEPT !.raised = "KeyError"]
    ELSE IF inp.fail = family THEN [st EXCEPT !.raised = "LibraryError"]
    ELSE IF family = "exponential_smoothing"
            /\ exponential_smoothing_raises(holdout_period)
         THEN [st EXCEPT !.raised = "ValueError"]
    ELSE [st EXCEPT !.cands = Append(@, candidate)]

\* raised: what _fit_ensemble raises on the candidates of st
EnsembleOutcome(st, raised) ==
    IF raised # "" THEN [st EXCEPT !.raised = raised]
    ELSE [st EXCEPT !.cands = candidates_after_ensemble(st.cands, error_metric,
                                                        nfits + 1)]

EnsembleStep(st) ==
    IF st.raised # "" \/ ~Contains(model_names, "ensemble") THEN st
    ELSE EnsembleOutcome(st, fit_ensemble_raises(st.cands))

fit(inp) ==
    /\ ctor = "ok"
    /\ nfits' = nfits + 1
    /\ ncalls' = ncalls + 1
    /\ UNCHANGED <<ctor, model_names, error_metric, holdout_period>>
    /\ IF check_datetime_index(inp.indexType) # "ok"
       THEN /\ ret' = [NoReturn EXCEPT !.op = "fit",
                                       !.raised = check_datetime_index(inp.indexType)]
            /\ lastFit' = inp @@ [status |-> "raised", evaluated |-> <<>>,
                                   ensembleInputs |-> -1]
            /\ UNCHANGED <<data, exogenous, using_exogenous, candidate_models,
                           fit_model, fit_model_type, best_model_error, is_fitted>>
       ELSE \E s1 \in {FitStep([cands |-> candidate_models, raised |-> ""],
                         "auto_arima", inp,
                         fit_auto_arima(inp.series, holdout_period, error_metric,
                                        nfits + 1, inp.err[1], TRUE))} :
            \E s2 \in {FitStep(s1, "exponential_smoothing", inp,
                         fit_exponential_smoothing(inp.series, holdout_period,
                                        error_metric, nfits + 1, inp.err[2], TRUE))} :
            \E s3 \in {FitStep(s2, "tbats", inp,
                         fit_tbats(inp.series, holdout_period, error_metric,
                                   nfits + 1, inp.err[3], TRUE))} :
            \E s4 \in {EnsembleStep(s3)} :
            \E s5 \in {IF s4.raised = "" /\ SortRaises(s4.cands)
                       THEN [s4 EXCEPT !.raised = "TypeError"] ELSE s4} :
            \E ranked \in {IF s5.raised = "" THEN sorted(s5.cands) ELSE <<>>} :
                /\ data' = inp.series
                /\ using_exogenous' = using_exogenous_of(inp, using_exogenous)
                /\ exogenous' = exogenous_of(inp, exogenous)
                /\ lastFit' = inp @@
                       [status |-> IF s5.raised = "" THEN "ok" ELSE "raised",
                        evaluated |->
                            [i \in 1..(Len(s5.cands) - Len(candidate_models)) |->
                                s5.cands[Len(candidate_models) + i].name],
                        ensembleInputs |->
                            IF s3.raised = "" /\ Contains(model_names, "ensemble")
                            THEN Len(SelectSeq(s3.cands,
                                         LAMBDA c : c.name # "ensemble"))
                            ELSE -1]
                /\ ret' = [NoReturn EXCEPT !.op = "fit", !.raised = s5.raised]
                /\ IF s5.raised # ""
                   THEN /\ candidate_models' = s5.cands
                        /\ UNCHANGED <<fit_model, fit_model_type, best_model_error,
                                       is_fitted>>
                   ELSE /\ candidate_models' = ranked
                        /\ best_model_error' = ranked[1].score
                        /\ fit_model' = ranked[1].model
                        /\ fit_model_type' = ranked[1].name
                        /\ is_fitted' = TRUE

\* a call of fit, while the bounds on the calls allow one
Fit ==
    /\ nfits < MaxFits
    /\ ncalls < MaxCalls
    /\ \E inp \in FitInputs : fit(inp)

(***************************************************************************)
(* predict                                                                 *)
(*   a prediction is a sequence of rows [date, parts]; a part is           *)
(*   [src, k, family, fit]: the value that the model of that family built  *)
(*   by that fit call gives for position k of its series (src = "in") or   *)
(*   for k steps after the end of its series (src = "out"); the value of   *)
(*   the row is the mean of its parts                                      *)
(***************************************************************************)
ModelEntry(m, pos) ==
    IF pos <= m.n
    THEN [src |-> "in",  k |-> pos,       family |-> m.family, fit |-> m.fit]
    ELSE [src |-> "out", k |-> pos - m.n, family |-> m.family, fit |-> m.fit]

Forecasts(m, periods) ==
    [i \in 1..periods |-> [src |-> "out", k |-> i, family |-> m.family, fit |-> m.fit]]

\* pd.Series(preds, index=pd.date_range(start_date, end_date, freq='MS'))
MakeSeries(path, preds, start_date, end_date) ==
    [raised   |-> IF Len(preds) # DateRangeLen(start_date, end_date)
                  THEN "ValueError" ELSE "",
     paths    |-> {path},
     produced |-> {Len(preds)},
     value    |-> IF Len(preds) # DateRangeLen(start_date, end_date) THEN <<>>
                  ELSE [i \in 1..Len(preds) |->
                          [date |-> DateRange(start_date, end_date)[i],
                           parts |-> <<preds[i]>>]]]

Raise(exception, paths) ==
    [raised |-> exception, paths |-> paths, produced |-> {}, value |-> <<>>]

\* a variant whose first branch also takes a start on the last date
auto_arima_path_inclusive(start_date, end_date, d) ==
    IF start_date <= LastDate(d) /\ end_date <= LastDate(d) THEN "in_sample"
    ELSE IF start_date < LastDate(d) /\ LastDate(d) < end_date THEN "stitched"
    ELSE "out_of_sample"

\* the branch _predict_auto_arima takes
auto_arima_path(start_date, end_date, d) ==
    IF start_date < LastDate(d) /\ end_date <= LastDate(d) THEN "in_sample"
    ELSE IF start_date < LastDate(d) /\ LastDate(d) < end_date THEN "stitched"
    ELSE "out_of_sample"

predict_auto_arima(m, d, start_date, end_date, last_data_date) ==
    LET path == auto_arima_path(start_date, end_date, d)
        \* self.data.index.get_loc(date)
        loc(date) == date - d.first
    IN  IF m.family = "None" THEN Raise("AttributeError", {path})
        ELSE IF path = "in_sample"
        THEN MakeSeries(path,
                 [i \in 1..(loc(end_date) - loc(start_date) + 1) |->
                     ModelEntry(m, loc(start_date) + i)],
                 start_date, end_date)
        ELSE IF path = "stitched"
        THEN LET num_extra_months == MonthDiff(last_data_date, end_date)
             IN  IF loc(start_date) > m.n - 1 THEN Raise("ValueError", {path})
                 ELSE MakeSeries(path,
                          [i \in 1..(m.n - loc(start_date)) |->
                              ModelEntry(m, loc(start_date) + i)]
                          \o Forecasts(m, num_extra_months),
                          start_date, end_date)
        ELSE LET months_to_predict == MonthDiff(start_date, end_date) + 1
             IN  MakeSeries(path, Forecasts(m, months_to_predict), start_date, end_date)

\* self.fit_model.predict(start=start_date, end=end_date): the library resolves
\* the dates against the index of the series the model was built from
predict_exponential_smoothing(m, start_date, end_date) ==
    IF m.family = "None" THEN Raise("AttributeError", {})
    ELSE IF start_date < m.first THEN Raise("KeyError", {})
    ELSE [raised   |-> "",
          paths    |-> {},
          produced |-> {},
          value    |-> [i \in 1..DateRangeLen(start_date, end_date) |->
                          [date  |-> start_date + (i - 1),
                           parts |-> <<ModelEntry(m, start_date + (i - 1) - m.first + 1)>>]]]

tbats_path(start_date, end_date, d) ==
    LET in_sample_last == DateRange(d.first, LastDate(d))[DateRangeLen(d.first, LastDate(d))]
    IN  IF start_date < in_sample_last /\ end_date <= in_sample_last THEN "in_sample"
        ELSE IF start_date < LastDate(d) /\ LastDate(d) < end_date THEN "stitched"
        ELSE "out_of_sample"

predict_tbats(m, d, start_date, end_date, last_data_date) ==
    LET path == tbats_path(start_date, end_date, d)
        \* in_sample_preds: y_hat[i] labelled with the i-th date of self.data
        in_sample_preds == [i \in 1..Len(d.vals) |-> ModelEntry(m, i)]
        \* in_sample_preds.loc[a:b]
        slice(a, b) == [i \in 1..DateRangeLen(a, b) |-> in_sample_preds[a - d.first + i]]
    IN  IF m.family = "None" THEN Raise("AttributeError", {})
        ELSE IF m.n # DateRangeLen(d.first, LastDate(d)) THEN Raise("ValueError", {})
        ELSE IF path = "in_sample"
        THEN MakeSeries(path, slice(start_date, end_date), start_date, end_date)
        ELSE IF path = "stitched"
        THEN LET num_extra_months == MonthDiff(last_data_date, end_date)
             IN  MakeSeries(path,
                     slice(start_date, LastDate(d)) \o Forecasts(m, num_extra_months),
                     start_date, end_date)
        ELSE LET months_to_predict == MonthDiff(start_date, end_date) + 1
             IN  MakeSeries(path, Forecasts(m, months_to_predict), start_date, end_date)

\* for model in self.candidate_models: if model[2] == name: self.fit_model = model[1]
SelectModel(current, candidates, name) ==
    LET hits == SelectSeq(candidates, LAMBDA c : c.name = name)
    IN  IF hits = <<>> THEN current ELSE hits[Len(hits)].model

\* st with what the predictor of model m returned (r)
EnsembleCollect(st, m, r) ==
    [model    |-> m,
     raised   |-> r.raised,
     paths    |-> st.paths \cup r.paths,
     produced |-> st.produced \cup r.produced,
     preds    |-> IF r.raised = "" THEN Append(st.preds, r.value) ELSE st.preds]

EnsemblePredict(st, family, m, d, start_date, end_date, last_data_date) ==
    EnsembleCollect(st, m,
        CASE family = "auto_arima" ->
               predict_auto_arima(m, d, start_date, end_date, last_data_date)
          [] family = "exponential_smoothing" ->
               predict_exponential_smoothing(m, start_date, end_date)
          [] OTHER ->
               predict_tbats(m, d, start_date, end_date, last_data_date))

\* one family's step of _predict_ensemble: st is [model, raised, paths,
\* produced, preds], preds the predictions collected so far
EnsembleFamilyStep(st, family, names, candidates, d, start_date, end_date, last_data_date) ==
    IF st.raised # "" \/ ~Contains(names, family) THEN st
    ELSE EnsemblePredict(st, family, SelectModel(st.model, candidates, family),
                         d, start_date, end_date, last_data_date)

\* s3: the state after the three families
EnsembleResult(s3, raised, value, model) ==
    [raised |-> raised, paths |-> s3.paths, produced |-> s3.produced,
     value |-> value, model |-> model]

EnsembleMean(s3, start_date, end_date) ==
    IF s3.raised # "" THEN EnsembleResult(s3, s3.raised, <<>>, s3.model)
    ELSE IF s3.preds = <<>> THEN EnsembleResult(s3, "TypeError", <<>>, s3.model)
    \* a single series: Series.mean(axis='columns') raises
    ELSE IF Len(s3.preds) = 1 THEN EnsembleResult(s3, "ValueError", <<>>, s3.model)
    ELSE EnsembleResult(s3, "",
             [i \in 1..DateRangeLen(start_date, end_date) |->
                 [date  |-> start_date + (i - 1),
                  parts |-> [j \in 1..Len(s3.preds) |-> s3.preds[j][i].parts[1]]]],
             NoModel)

\* the result of _predict_ensemble, with the fit_model it leaves behind
predict_ensemble(current, names, candidates, d, start_date, end_date, last_data_date) ==
    EnsembleMean(
        EnsembleFamilyStep(
            EnsembleFamilyStep(
                EnsembleFamilyStep(
                    [model |-> current, raised |-> "", paths |-> {}, produced |-> {},
                     preds |-> <<>>],
                    "auto_arima", names, candidates, d,
                    start_date, end_date, last_data_date),
                "exponential_smoothing", names, candidates, d,
                start_date, end_date, last_data_date),
            "tbats", names, candidates, d, start_date, end_date, last_data_date),
        start_date, end_date)

\* a variant that does not ask for the exogenous regressors
predict_check_exogenous_optional(fitted, d, exog_used, req) ==
    IF ~fitted THEN "AttributeError"
    ELSE IF req.types # "datetime" THEN "TypeError"
    ELSE IF req.start > req.end THEN "ValueError"
    ELSE IF req.start > AddOneMonth(LastDate(d)) THEN "ValueError"
    ELSE IF req.start < d.first THEN "ValueError"
    ELSE ""

\* what predict raises before it dispatches ("" when nothing), on an object
\* with these values of is_fitted, data and using_exogenous
predict_check(fitted, d, exog_used, req) ==
    IF ~fitted THEN "AttributeError"
    ELSE IF req.types # "datetime" THEN "TypeError"
    ELSE IF req.start > req.end THEN "ValueError"
    ELSE IF req.start > AddOneMonth(LastDate(d)) THEN "ValueError"
    ELSE IF req.start < d.first THEN "ValueError"
    ELSE IF exog_used /\ LastDate(d) < req.end /\ req.exogenous = "None"
         THEN "ValueError"
    ELSE ""

\* the dispatch at the end of predict on a request that passed its checks:
\* what the predictor of model_type returns or raises, with the fit_model it
\* leaves behind
predict_dispatch(model_type, model, names, candidates, d, req) ==
    CASE model_type = "auto_arima" ->
             predict_auto_arima(model, d, req.start, req.end, LastDate(d))
                 @@ [model |-> model]
      [] model_type = "exponential_smoothing" ->
             predict_exponential_smoothing(model, req.start, req.end)
                 @@ [model |-> model]
      [] model_type = "tbats" ->
             predict_tbats(model, d, req.start, req.end, LastDate(d))
                 @@ [model |-> model]
      [] model_type = "ensemble" ->
             predict_ensemble(model, names, candidates, d, req.start, req.end,
                              LastDate(d))

predict(req) ==
    /\ ctor = "ok"
    /\ ncalls' = ncalls + 1
    /\ UNCHANGED <<ctor, model_names, error_metric, holdout_period, data, exogenous,
                   using_exogenous, candidate_models, best_model_error, is_fitted,
                   nfits, lastFit>>
    /\ \E raised \in {predict_check(is_fitted, data, using_exogenous, req)} :
       IF raised # ""
       THEN /\ ret' = [NoReturn EXCEPT !.op = "predict", !.req = req,
                                       !.raised = raised]
            /\ UNCHANGED <<fit_model, fit_model_type>>
       ELSE \E r \in {predict_dispatch(fit_model_type, fit_model, model_names,
                                        candidate_models, data, req)} :
                /\ ret' = [op |-> "predict", raised |-> r.raised, req |-> req,
                           dispatch |-> fit_model_type,
                           paths |-> r.paths, produced |-> r.produced,
                           value |-> r.value]
                /\ fit_model' = r.model
                /\ fit_model_type' = fit_model_type

\* the requests: every start from one month before the first date to two
\* months after the last one, with the ends that lie just before the start,
\* on it, on the last date and MaxHorizon months after the last date
StartDates ==
    IF data = NoData THEN {Date(2020, 12)}
    ELSE (data.first - 1)..(LastDate(data) + 2)

EndDates(start_date) ==
    IF data = NoData THEN {start_date}
    ELSE {e \in {start_date - 1, start_date, LastDate(data),
                 LastDate(data) + MaxHorizon} : e >= start_date - 1}

Request(types, start_date, end_date, exog) ==
    [types |-> types, start |-> start_date, end |-> end_date, exogenous |-> exog]

PredictInputs ==
    UNION { { Request("datetime", s, e, "None") : e \in EndDates(s) } : s \in StartDates }
    \cup
    { r \in UNION { { Request("datetime", s, e, "frame") : e \in EndDates(s) } :
                    s \in {data.first, LastDate(data) + 1} } :
        r.end >= r.start /\ r.end > LastDate(data) }
    \cup
    { Request("str", LastDate(data), LastDate(data), "None") }

\* a call of predict, while the bound on the calls allows one
Predict ==
    /\ ncalls < MaxCalls
    /\ \E req \in PredictInputs : predict(req)

Next == Fit \/ Predict

Spec == Init /\ [][Next]_vars

(***************************************************************************)
(* Properties                                                              *)
(***************************************************************************)
FitReturned == ret.op = "fit" /\ ret.raised = ""

CandidatesNamed(name) == SelectSeq(candidate_models, LAMBDA c : c.name = name)

HoldoutIndex == Index(testing_data_of(data, holdout_period))

\* the candidate was built by the last fit call from the series of that call
BuiltFromLastCall(c) ==
    /\ c.call = nfits
    /\ c.name # "ensemble" =>
           /\ c.model.fit = nfits
           /\ c.model.first = lastFit.series.first
           /\ c.model.n = Len(lastFit.series.vals)

\* C1: after a fit call that returned, the candidate list holds exactly one
\* candidate per configured model name, every candidate was built by that
\* call from its series, and using_exogenous is true only if that call
\* declared exogenous columns.
C1_FitResetsState ==
    FitReturned =>
        /\ \A name \in SeqToSet(model_names) : Len(CandidatesNamed(name)) = 1
        /\ Len(candidate_models) = Cardinality(SeqToSet(model_names))
        /\ \A i \in 1..Len(candidate_models) : BuiltFromLastCall(candidate_models[i])
        /\ using_exogenous => lastFit.exogenous # "None"

\* a = b on two scores: Python's == on floats, and None equals None only
ScoreEq(a, b) ==
    IF a.k = "none" \/ b.k = "none" THEN a.k = b.k ELSE FloatEq(a, b)

\* a is less than or equal to b on two scores: a < b or a = b, nothing being
\* less than None or greater than it
ScoreLe(a, b) ==
    IF a.k = "none" \/ b.k = "none" THEN a.k = b.k ELSE FloatLe(a, b)

\* the selected model is a candidate whose score is best_model_error, and no
\* candidate has a smaller score
WinnerHasMinimumScore ==
    /\ \A i \in 1..Len(candidate_models) :
           ScoreLe(best_model_error, candidate_models[i].score)
    /\ \E i \in 1..Len(candidate_models) :
           /\ ScoreEq(candidate_models[i].score, best_model_error)
           /\ candidate_models[i].model = fit_model
           /\ candidate_models[i].name = fit_model_type

\* C2 as stated: after every fit call that returned (under the implemented
\* metric, whose scores are floats), best_model_error is less than or equal to
\* the score of every candidate, and the selected model is a candidate whose
\* score equals best_model_error.
C2_WinnerHasMinimumScore ==
    (FitReturned /\ error_metric = "mase") => WinnerHasMinimumScore

NoNaNScore ==
    \A i \in 1..Len(candidate_models) : candidate_models[i].score.k # "nan"

\* C2 amended: after every fit call that returned with no candidate's score
\* being NaN, best_model_error is less than or equal to the score of every
\* candidate, and the selected model is a candidate whose score equals
\* best_model_error.
C2_WinnerHasMinimumScoreAmended ==
    (FitReturned /\ NoNaNScore) => WinnerHasMinimumScore

\* a fit returned with several comparable scores, and the winner is not the
\* candidate that was appended first
C2_Witness ==
    /\ FitReturned /\ NoNaNScore
    /\ Len(candidate_models) >= 3
    /\ fit_model_type \notin {"auto_arima", lastFit.evaluated[1]}
    /\ \E i \in 1..Len(candidate_models) :
           FloatLt(best_model_error, candidate_models[i].score)

EvaluationOrder == <<"auto_arima", "exponential_smoothing", "tbats", "ensemble">>

Rank(name) == CHOOSE r \in 1..Len(EvaluationOrder) : EvaluationOrder[r] = name

\* C3: the candidates of a fit call are built in the order auto_arima,
\* exponential_smoothing, tbats, ensemble, and when the call returns the
\* winner is, among the candidates that share the minimum score, one whose
\* model comes first in that order.
C3_TiesGoToFirstEvaluated ==
    /\ \A i, j \in 1..Len(lastFit.evaluated) :
           i < j => Rank(lastFit.evaluated[i]) < Rank(lastFit.evaluated[j])
    /\ FitReturned =>
           \A i \in 1..Len(candidate_models) :
               (\A j \in 1..Len(candidate_models) :
                    FloatLe(candidate_models[i].score, candidate_models[j].score))
               => Rank(fit_model_type) <= Rank(candidate_models[i].name)

\* C4: a model is selected exactly when the most recent fit call returned:
\* none before the first fit and none after a fit call that raised (predict
\* is then rejected), one after a fit call that returned.
C4_SelectedIffLastFitReturned ==
    /\ is_fitted <=> lastFit.status = "ok"
    /\ fit_model_type # "None" <=> lastFit.status = "ok"
    /\ lastFit.status = "ok" => Len(CandidatesNamed(fit_model_type)) >= 1
    /\ (ret.op = "predict" /\ lastFit.status # "ok") => ret.raised = "AttributeError"

\* the cases in which predict is to raise: on an object that is not fitted,
\* and for datetime arguments with the start after the end, before the first
\* date or more than a month after the last one, or with an end after the
\* last date and no exogenous data on an object fitted with regressors
Rejected(req) ==
    \/ ~is_fitted
    \/ /\ req.types = "datetime"
       /\ \/ req.start > req.end
          \/ req.start < data.first
          \/ req.start > LastDate(data) + 1
          \/ using_exogenous /\ req.end > LastDate(data) /\ req.exogenous = "None"

FittedState == <<data, exogenous, using_exogenous, candidate_models, fit_model,
                 fit_model_type, best_model_error, is_fitted>>

\* C5: a predict call raises, returns no series and leaves the fitted state
\* unchanged when the object is not fitted, when the start is after the end,
\* before the first observed date or more than one month after the last one,
\* and when regressors were declared, the end is after the last observed date
\* and no exogenous data is passed; every other call with datetime arguments
\* dispatches to the predictor of the selected model.
C5_PredictRejects ==
    [][ret'.op = "predict" =>
          /\ Rejected(ret'.req) =>
                 /\ ret'.raised # ""
                 /\ ret'.value = <<>>
                 /\ ret'.dispatch = ""
                 /\ UNCHANGED FittedState
          /\ (~Rejected(ret'.req) /\ ret'.req.types = "datetime") =>
                 /\ ret'.dispatch = fit_model_type
                 /\ ret'.dispatch \in SeqToSet(valid_models)]_vars

\* a request inside the date bounds that reaches past the last date was
\* refused for want of the exogenous data
C5_Witness ==
    /\ ret.op = "predict" /\ ret.raised = "ValueError" /\ ret.value = <<>>
    /\ is_fitted /\ using_exogenous
    /\ ret.req.types = "datetime" /\ ret.req.exogenous = "None"
    /\ data.first <= ret.req.start /\ ret.req.start <= ret.req.end
    /\ ret.req.start <= LastDate(data) + 1
    /\ ret.req.end > LastDate(data)

\* the branch that the dates and the last observed date call for
PathOf(start_date, end_date, last) ==
    IF start_date < last /\ end_date <= last THEN "in_sample"
    ELSE IF start_date < last /\ last < end_date THEN "stitched"
    ELSE "out_of_sample"

\* twelve months ending on 2020-12
ExampleData == [first |-> Date(2020, 1), vals |-> [i \in 1..12 |-> i], columns |-> {}]

ExampleRequest(start_date, end_date) == Request("datetime", start_date, end_date, "None")

\* C6: on every validated request the branch taken by the auto_arima and the
\* tbats predictor is the one given by the start, the end and the last
\* observed date alone: in-sample when start < last and end <= last, stitched
\* when start < last < end, out-of-sample otherwise. With a series ending on
\* 2020-12, (2020-06, 2020-12) is in-sample, (2020-06, 2021-03) stitched,
\* (2021-01, 2021-03) out-of-sample, and a start of 2021-02 is refused.
C6_PathByDates ==
    /\ (ret.op = "predict" /\ ret.dispatch # "") =>
           \A p \in ret.paths :
               p = PathOf(ret.req.start, ret.req.end, LastDate(data))
    /\ \A r \in {ExampleRequest(Date(2020, 6), Date(2020, 12)),
                 ExampleRequest(Date(2020, 6), Date(2021, 3)),
                 ExampleRequest(Date(2021, 1), Date(2021, 3))} :
           predict_check(TRUE, ExampleData, FALSE, r) = ""
    /\ auto_arima_path(Date(2020, 6), Date(2020, 12), ExampleData) = "in_sample"
    /\ tbats_path(Date(2020, 6), Date(2020, 12), ExampleData) = "in_sample"
    /\ auto_arima_path(Date(2020, 6), Date(2021, 3), ExampleData) = "stitched"
    /\ tbats_path(Date(2020, 6), Date(2021, 3), ExampleData) = "stitched"
    /\ auto_arima_path(Date(2021, 1), Date(2021, 3), ExampleData) = "out_of_sample"
    /\ tbats_path(Date(2021, 1), Date(2021, 3), ExampleData) = "out_of_sample"
    /\ predict_check(TRUE, ExampleData, FALSE,
                     ExampleRequest(Date(2021, 2), Date(2021, 3))) # ""

\* the ensemble was asked for a range that starts on the last date of a
\* series ending on 2020-12, and both predictors forecast out of sample
C6_Witness ==
    /\ ret.op = "predict" /\ ret.raised = ""
    /\ ret.dispatch = "ensemble"
    /\ LastDate(data) = Date(2020, 12)
    /\ ret.req.start = LastDate(data) /\ ret.req.end > LastDate(data)
    /\ ret.paths = {"out_of_sample"}
    /\ Cardinality({ret.value[1].parts[j].family : j \in 1..Len(ret.value[1].parts)}
                   \cap {"auto_arima", "tbats"}) = 2

MonthsRequested == DateRangeLen(ret.req.start, ret.req.end)

\* C7: for every request that passes predict's checks, each predictor
\* produces as many values as there are months from the start to the end,
\* both included, and the result holds one value for each of these months in
\* order; a request for the first to the last observed date returns as many
\* values as the series has points.
C7_OneValuePerMonth ==
    (ret.op = "predict" /\ ret.dispatch # "") =>
        /\ ret.raised = ""
        /\ \A n \in ret.produced : n = MonthsRequested
        /\ Len(ret.value) = MonthsRequested
        /\ \A i \in 1..Len(ret.value) : ret.value[i].date = ret.req.start + (i - 1)
        /\ (ret.req.start = data.first /\ ret.req.end = LastDate(data)) =>
               Len(ret.value) = Len(data.vals)

\* the candidates that the last fit call built
BuiltByLastFit == SelectSeq(candidate_models, LAMBDA c : c.call = nfits)

HoldoutActuals == Floats(testing_data_of(data, holdout_period).vals)

\* C8: after a fit call that returned, the table of every candidate built by
\* the call has holdout_period rows, those of the holdout timestamps, each
\* with the actual value and a prediction, and the candidate's score is the
\* error of these predictions against these actuals.
C8_HoldoutTable ==
    FitReturned =>
        \A i \in 1..Len(BuiltByLastFit) :
            LET c == BuiltByLastFit[i]
            IN  /\ Len(c.preds.index) = holdout_period
                /\ c.preds.index = HoldoutIndex
                /\ c.preds.actuals = HoldoutActuals
                /\ \A j \in 1..Len(c.preds.cols[1].vals) :
                       IsNum(c.preds.cols[1].vals[j])
                /\ c.score = error_metric_of(error_metric,
                                 Restrict(c.preds, HoldoutIndex).cols[1].vals,
                                 HoldoutActuals)

\* the prediction that candidate c holds for date d (NaN when it has no row)
PredictionOn(c, d) ==
    IF Contains(c.preds.index, d)
    THEN Column(c.preds, IF c.name = "ensemble" THEN "en_test_predictions"
                         ELSE c.preds.cols[1].base).vals[PosOf(c.preds.index, d)]
    ELSE NaN

\* C9: after a fit call with ensemble configured that returned, at every
\* holdout timestamp each non-ensemble candidate of the call holds a
\* prediction, and the ensemble candidate's prediction is the arithmetic mean
\* of them all.
C9_EnsembleIsMean ==
    (FitReturned /\ Contains(model_names, "ensemble")) =>
        LET others == SelectSeq(BuiltByLastFit, LAMBDA c : c.name # "ensemble")
            ens    == SelectSeq(BuiltByLastFit, LAMBDA c : c.name = "ensemble")
        IN  /\ Len(ens) = 1
            /\ \A name \in SeqToSet(model_names) \ {"ensemble"} :
                   \E k \in 1..Len(others) : others[k].name = name
            /\ \A j \in 1..Len(HoldoutIndex) :
                   LET vals == [k \in 1..Len(others) |->
                                   PredictionOn(others[k], HoldoutIndex[j])]
                   IN  /\ \A k \in 1..Len(vals) : IsNum(vals[k])
                       /\ FloatEq(PredictionOn(ens[1], HoldoutIndex[j]),
                                  NanMean(vals))

\* C10: every accepted configuration that contains ensemble names at least
\* two distinct other models, and _fit_ensemble is never called with fewer
\* than two non-ensemble candidates in the list.
C10_EnsembleNeedsTwoModels ==
    /\ (ctor = "ok" /\ Contains(model_names, "ensemble")) =>
           Cardinality(SeqToSet(model_names) \ {"ensemble"}) >= 2
    /\ lastFit.ensembleInputs # -1 => lastFit.ensembleInputs >= 2

\* C11: an object constructed with an error metric other than mase does not
\* exist: the constructor raises, so no fit call is made, and no candidate is
\* scored or ranked, under such a metric.
C11_UnsupportedMetricRejected ==
    error_metric # "mase" =>
        /\ ctor # "ok"
        /\ nfits = 0
        /\ candidate_models = <<>>
        /\ ~is_fitted

\* C12: in every state, a predict call that returns a series leaves
\* fit_model as it is (the call changes nothing else of the object), and
\* the same call made again takes the same branches and returns the same
\* series.
C12_PredictIdempotent ==
    \A req \in PredictInputs :
        predict_check(is_fitted, data, using_exogenous, req) = "" =>
            \A first \in {predict_dispatch(fit_model_type, fit_model, model_names,
                                           candidate_models, data, req)} :
                first.raised = "" =>
                    /\ first.model = fit_model
                    /\ \A again \in {predict_dispatch(fit_model_type, first.model,
                                           model_names, candidate_models, data, req)} :
                           /\ again.raised = ""
                           /\ again.paths = first.paths
                           /\ again.value = first.value

\* C13: in every series returned for a request that passed predict's checks,
\* a value that comes from the auto_arima or the tbats predictor and is
\* labelled with a date up to the last observed one is the model's fitted
\* value for that date, and one labelled with the k-th month after the last
\* observed date is the model's forecast k steps ahead; the out-of-sample
\* branch is taken only for a start one month after the last observed date.
C13_ValuesLabelledWithTheirDate ==
    (ret.op = "predict" /\ ret.dispatch # "") =>
        /\ \A i \in 1..Len(ret.value) :
               \A j \in 1..Len(ret.value[i].parts) :
                   LET d == ret.value[i].date
                       p == ret.value[i].parts[j]
                   IN  p.family \in {"auto_arima", "tbats"} =>
                           IF d <= LastDate(data)
                           THEN p.src = "in" /\ p.k = d - data.first + 1
                           ELSE p.src = "out" /\ p.k = d - LastDate(data)
        /\ "out_of_sample" \in ret.paths => ret.req.start = LastDate(data) + 1

\* the model that the most recent fit call built for this name (NoModel when
\* it built none)
OwnModel(name) ==
    LET own == SelectSeq(candidate_models,
                         LAMBDA c : c.name = name /\ c.call = nfits)
    IN  IF own = <<>> THEN NoModel ELSE own[1].model

\* what the predictor of this name returns for the request with that model
OwnPrediction(name, req) ==
    CASE name = "auto_arima" ->
             predict_auto_arima(OwnModel(name), data, req.start, req.end, LastDate(data))
      [] name = "exponential_smoothing" ->
             predict_exponential_smoothing(OwnModel(name), req.start, req.end)
      [] OTHER ->
             predict_tbats(OwnModel(name), data, req.start, req.end, LastDate(data))

\* the configured names other than ensemble, in the order of evaluation
Constituents ==
    SelectSeq(EvaluationOrder,
              LAMBDA name : name # "ensemble" /\ Contains(model_names, name))

\* C14: a predict call that passed the checks with ensemble selected returns
\* a series over the months from the start to the end, and its value at each
\* date is the mean of one prediction per configured non-ensemble model, the
\* one that this model's predictor gives for that date with the model that
\* the most recent fit call built for it.
C14_EnsembleUsesOwnModels ==
    (ret.op = "predict" /\ ret.dispatch = "ensemble") =>
        /\ ret.raised = ""
        /\ Len(ret.value) = MonthsRequested
        /\ \A i \in 1..Len(ret.value) :
               /\ ret.value[i].date = ret.req.start + (i - 1)
               /\ Len(ret.value[i].parts) = Len(Constituents)
               /\ \A j \in 1..Len(Constituents) :
                      LET own == OwnPrediction(Constituents[j], ret.req)
                      IN  /\ own.raised = ""
                          /\ ret.value[i].parts[j] = own.value[i].parts[1]
                          /\ ret.value[i].parts[j].fit = nfits
                          /\ ret.value[i].parts[j].family = Constituents[j]

====
